---- MODULE Spec2Model ----
(***************************************************************************)
(* SmartUSBHub system service (smartusbhub_service.py).                    *)
(*                                                                         *)
(* main() builds a SmartUSBHubService (which connects to the hub), starts  *)
(* an http.server.HTTPServer in a daemon thread and waits for Ctrl+C.      *)
(* SmartUSBHubRequestHandler.do_GET / do_POST parse the request line,      *)
(* validate the parameters, make one call on the hub driver and write a    *)
(* JSON response.                                                          *)
(*                                                                         *)
(* Text is modelled as sequences of one-character strings, so that int(),  *)
(* str.split(',') and the path tests are computed and not assumed.         *)
(***************************************************************************)
EXTENDS Integers, Sequences, FiniteSets, TLC

(***************************************************************************)
(* Bounds of the model.                                                    *)
(***************************************************************************)
\* connections a client may have open and not yet accepted by the server
MaxPending == 1
\* request handler instances that may exist at the same time
NumHandlers == 2
\* elements of a comma-separated `channels` value
MaxChannels == 2

(***************************************************************************)
(* Program constants.                                                      *)
(***************************************************************************)
\* the default of http_port and of --http-port
DefaultHttpPort == 80891
\* the channel range tested by the handlers: channel < 1 or channel > 4
MinChannel == 1
MaxChannel == 4

Channels == MinChannel..MaxChannel

(***************************************************************************)
(* Text.                                                                   *)
(***************************************************************************)
DEVICE == <<"d", "e", "v", "i", "c", "e">>
INFO == <<"i", "n", "f", "o">>
CHANNEL == <<"c", "h", "a", "n", "n", "e", "l">>
POWER == <<"p", "o", "w", "e", "r">>
DATALINE == <<"d", "a", "t", "a", "l", "i", "n", "e">>
EMPTY == <<>>

Digits == {"0", "1", "2", "3", "4", "5", "6", "7", "8", "9"}

DigitVal(c) ==
    CASE c = "0" -> 0 [] c = "1" -> 1 [] c = "2" -> 2 [] c = "3" -> 3
      [] c = "4" -> 4 [] c = "5" -> 5 [] c = "6" -> 6 [] c = "7" -> 7
      [] c = "8" -> 8 [] c = "9" -> 9

\* str.strip() as int() applies it: leading and trailing blanks are dropped
RECURSIVE LStrip(_)
LStrip(s) == IF s # <<>> /\ Head(s) = " " THEN LStrip(Tail(s)) ELSE s

RECURSIVE RStrip(_)
RStrip(s) ==
    IF s # <<>> /\ s[Len(s)] = " " THEN RStrip(SubSeq(s, 1, Len(s) - 1)) ELSE s

Strip(s) == RStrip(LStrip(s))

\* the digits of an int() argument after the sign: digits, with single
\* underscores allowed between two digits
DigitsOk(s) ==
    /\ s # <<>>
    /\ \A i \in 1..Len(s) :
          \/ s[i] \in Digits
          \/ /\ s[i] = "_"
             /\ i > 1 /\ i < Len(s)
             /\ s[i - 1] \in Digits /\ s[i + 1] \in Digits

RECURSIVE DigitsValue(_, _)
DigitsValue(s, acc) ==
    IF s = <<>> THEN acc
    ELSE IF Head(s) = "_" THEN DigitsValue(Tail(s), acc)
    ELSE DigitsValue(Tail(s), 10 * acc + DigitVal(Head(s)))

\* int(text): [ok |-> FALSE] stands for ValueError
PyInt(text) ==
    LET s == Strip(text)
        signed == s # <<>> /\ Head(s) \in {"+", "-"}
        body == IF signed THEN Tail(s) ELSE s
    IN  IF ~DigitsOk(body) THEN [ok |-> FALSE, val |-> 0]
        ELSE [ok |-> TRUE,
              val |-> IF signed /\ Head(s) = "-"
                      THEN 0 - DigitsValue(body, 0)
                      ELSE DigitsValue(body, 0)]

\* text.split(','): always at least one element
RECURSIVE SplitComma(_, _)
SplitComma(s, cur) ==
    IF s = <<>> THEN <<cur>>
    ELSE IF Head(s) = "," THEN <<cur>> \o SplitComma(Tail(s), <<>>)
    ELSE SplitComma(Tail(s), Append(cur, Head(s)))

Split(s) == SplitComma(s, <<>>)

\* ','.join(parts)
RECURSIVE Join(_)
Join(parts) ==
    IF parts = <<>> THEN <<>>
    ELSE IF Len(parts) = 1 THEN parts[1]
    ELSE parts[1] \o <<",">> \o Join(Tail(parts))

(***************************************************************************)
(* Requests.  A path is the sequence of its segments: '/a/b' is <<a, b>>,  *)
(* '/a/b/' is <<a, b, ''>>.  A query is the sequence of its name=value     *)
(* pairs after percent-decoding.                                           *)
(***************************************************************************)
Last(s) == s[Len(s)]

RECURSIVE SeqsUpTo(_, _)
\* the sequences over S of length 0..n
SeqsUpTo(S, n) ==
    IF n = 0 THEN {<<>>}
    ELSE LET shorter == SeqsUpTo(S, n - 1)
         IN  shorter \cup {Append(q, x) : q \in shorter, x \in S}

\* last path segments tried on GET /channel/power/{n}, /channel/dataline/{n}
SegTokens ==
    {EMPTY, <<"0">>, <<"1">>, <<"4">>, <<"5">>, <<"x">>, <<"1", "x">>,
     <<"+", "1">>, <<"-", "1">>, <<"0", "4">>, <<"0", "_", "4">>, <<"_", "1">>,
     <<"1", "0">>}

\* elements of a `channels` value
ListTokens == {<<"1">>, <<"4">>, <<"5">>, <<"x">>}

ChannelsValues == {Join(l) : l \in SeqsUpTo(ListTokens, MaxChannels) \ {<<>>}}

StateValues == {<<"0">>, <<"1">>, <<"2">>, <<"x">>}

Param(name, value) == [name |-> name, value |-> value]

\* the queries tried on POST: every `channels` value with a good `state`,
\* every `state` value with a good or an absent `channels`, each parameter
\* present or absent, and a blank `channels=`
Queries ==
    LET cs == {<<>>, <<Param("channels", EMPTY)>>}
              \cup {<<Param("channels", v)>> : v \in ChannelsValues}
        ss == {<<>>} \cup {<<Param("state", v)>> : v \in StateValues}
        good(c) == c # <<>> /\ \A i \in 1..Len(Split(c[1].value)) :
                       Split(c[1].value)[i] \in {<<"1">>, <<"4">>}
    IN  {c \o <<Param("state", <<"1">>)>> : c \in cs}
        \cup {c \o s : c \in {x \in cs : good(x) \/ x = <<>>}, s \in ss}

Paths ==
    {<<EMPTY>>, <<DEVICE>>, <<DEVICE, INFO>>, <<DEVICE, INFO, EMPTY>>,
     <<CHANNEL, POWER>>, <<CHANNEL, DATALINE>>}
    \cup {<<CHANNEL, k, t>> : k \in {POWER, DATALINE}, t \in SegTokens}
    \cup {<<CHANNEL, k, <<"x">>, t>> : k \in {POWER, DATALINE},
                                        t \in {<<"1">>, <<"5">>}}

Request(method, path, query) ==
    [method |-> method, path |-> path, query |-> query]

Requests ==
    {Request("GET", p, <<>>) : p \in Paths}
    \cup {Request("POST", p, q) : p \in {<<CHANNEL, POWER>>, <<CHANNEL, DATALINE>>},
                                  q \in Queries}
    \cup {Request("POST", p, <<>>) : p \in {<<DEVICE, INFO>>, <<CHANNEL, POWER, <<"1">>>>}}
    \cup {Request("PUT", p, <<>>) : p \in {<<DEVICE, INFO>>, <<CHANNEL, POWER>>}}

NoRequest == Request("", <<>>, <<>>)

\* parse_qs(query)[name], [] when the name is absent; blank values are dropped
\* (keep_blank_values is False)
RECURSIVE QueryValues(_, _)
QueryValues(query, name) ==
    IF query = <<>> THEN <<>>
    ELSE LET rest == QueryValues(Tail(query), name)
         IN  IF Head(query).name = name /\ Head(query).value # <<>>
             THEN <<Head(query).value>> \o rest
             ELSE rest

(***************************************************************************)
(* Python values returned by the driver, and json.dumps of them.           *)
(***************************************************************************)
PyNone == [t |-> "none", v |-> 0]
PyIntVal(n) == [t |-> "int", v |-> n]
PyBool(b) == [t |-> "bool", v |-> IF b THEN 1 ELSE 0]
PyDict == [t |-> "dict", v |-> 0]
PyBytes == [t |-> "bytes", v |-> 0]
\* a dict of channel -> state
PyMapping(items) == [t |-> "dict", v |-> 0, items |-> items]

JsonSerializable(pv) == pv.t # "bytes"

JsonDumps(pv) ==
    CASE pv.t = "none" -> "null"
      [] pv.t = "bool" -> (IF pv.v = 1 THEN "true" ELSE "false")
      [] pv.t = "int" -> (CASE pv.v = 0 -> "0" [] pv.v = 1 -> "1" [] OTHER -> "n")
      [] pv.t = "dict" -> "{..}"

(***************************************************************************)
(* Responses: what a handler has written to the connection, in order.      *)
(***************************************************************************)
Written(code, fields, channel, value, error) ==
    [code |-> code, fields |-> fields, channel |-> channel, value |-> value,
     error |-> error]

\* _send_error(message, status_code)
SendError(message, status_code) ==
    <<Written(status_code, {"error"}, 0, "", message)>>

\* _send_response(data): the status line and the headers are written before
\* json.dumps(data) runs, so a value json cannot encode leaves a 200 head
\* without a body and raises TypeError
SendResponse(fields, channel, pv) ==
    IF JsonSerializable(pv)
    THEN [sent |-> <<Written(200, fields, channel, JsonDumps(pv), "")>>,
          raised |-> ""]
    ELSE [sent |-> <<Written(200, {}, 0, "", "")>>, raised |-> "TypeError"]

(***************************************************************************)
(* SmartUSBHubService: each method is one call on the hub driver.          *)
(***************************************************************************)
HubCall(op, args, state) == [op |-> op, args |-> args, state |-> state]

NoCall == HubCall("none", <<>>, 0)

get_device_info == HubCall("get_device_info", <<>>, 0)

\* set_channel_power forwarding to the dataline setter
set_channel_power_as_dataline(channels, state) ==
    HubCall("set_channel_dataline", channels, state)

set_channel_power(channels, state) == HubCall("set_channel_power", channels, state)

\* get_channel_power_status asking only for the first of its channels
get_channel_power_status_first_only(channels) ==
    HubCall("get_channel_power_status", <<channels[1]>>, 0)

get_channel_power_status(channels) ==
    IF Len(channels) = 1
    THEN HubCall("get_channel_power_status", <<channels[1]>>, 0)
    ELSE HubCall("get_channel_power_status", channels, 0)

\* set_channel_dataline passing on only the first of its channels
set_channel_dataline_first_only(channels, state) ==
    HubCall("set_channel_dataline", <<channels[1]>>, state)

set_channel_dataline(channels, state) ==
    HubCall("set_channel_dataline", channels, state)

get_channel_dataline_status(channels) ==
    HubCall("get_channel_dataline_status", channels, 0)

(***************************************************************************)
(* SmartUSBHubRequestHandler.  A handler runs up to its driver call        *)
(* (Reply: it answered without one; CallHub: it is about to make one) and, *)
(* when the driver call has returned or raised, to its end (After...).     *)
(***************************************************************************)
Reply(sent) ==
    [t |-> "reply", sent |-> sent, call |-> NoCall, route |-> "none", channel |-> 0]

CallHub(route, call, channel) ==
    [t |-> "call", sent |-> <<>>, call |-> call, route |-> route, channel |-> channel]

HasPrefix(path, a, b) == Len(path) >= 3 /\ path[1] = a /\ path[2] = b

\* except ValueError / except Exception of the two GET channel branches
GetExcept(exc, message) ==
    IF exc = "ValueError" THEN SendError("Invalid channel number", 400)
    ELSE SendError(message, 500)

\* except (ValueError, TypeError) / except Exception of the two POST branches
PostExcept(exc, message) ==
    IF exc \in {"ValueError", "TypeError"} THEN SendError("Invalid parameters", 400)
    ELSE SendError(message, 500)

InRange(channel) == ~(channel < MinChannel \/ channel > MaxChannel)

do_GET(req) ==
    LET path == req.path
        n == PyInt(Last(path))
    IN  IF path = <<DEVICE, INFO>> THEN CallHub("info", get_device_info, 0)
        ELSE IF HasPrefix(path, CHANNEL, POWER) THEN
            IF ~n.ok THEN Reply(GetExcept("ValueError", "Failed to get power status"))
            ELSE IF ~InRange(n.val)
            THEN Reply(SendError("Channel must be between 1 and 4", 400))
            ELSE CallHub("power_get", get_channel_power_status(<<n.val>>), n.val)
        ELSE IF HasPrefix(path, CHANNEL, DATALINE) THEN
            IF ~n.ok THEN Reply(GetExcept("ValueError", "Failed to get dataline status"))
            ELSE IF ~InRange(n.val)
            THEN Reply(SendError("Channel must be between 1 and 4", 400))
            ELSE CallHub("dataline_get", get_channel_dataline_status(<<n.val>>), n.val)
        ELSE Reply(SendError("Endpoint not found", 404))

\* channels = [int(c) for c in query_params.get('channels', [])[0].split(',')]
ParseChannels(query) ==
    LET values == QueryValues(query, "channels")
        tokens == Split(values[1])
    IN  IF values = <<>> THEN [exc |-> "IndexError", channels |-> <<>>]
        ELSE IF \E i \in 1..Len(tokens) : ~PyInt(tokens[i]).ok
        THEN [exc |-> "ValueError", channels |-> <<>>]
        ELSE [exc |-> "", channels |-> [i \in 1..Len(tokens) |-> PyInt(tokens[i]).val]]

\* state = int(query_params.get('state', [None])[0])
ParseState(query) ==
    LET values == QueryValues(query, "state")
    IN  IF values = <<>> THEN [exc |-> "TypeError", state |-> 0]
        ELSE IF ~PyInt(values[1]).ok THEN [exc |-> "ValueError", state |-> 0]
        ELSE [exc |-> "", state |-> PyInt(values[1]).val]

\* the part of a POST branch before the service call: <<>> when the
\* parameters pass, else what the branch answers
PostRejection(query, message) ==
    LET c == ParseChannels(query)
        s == ParseState(query)
    IN  IF c.exc # "" THEN PostExcept(c.exc, message)
        ELSE IF c.channels = <<>> \/ \E i \in 1..Len(c.channels) : ~InRange(c.channels[i])
        THEN SendError("Channels must be between 1 and 4", 400)
        ELSE IF s.exc # "" THEN PostExcept(s.exc, message)
        ELSE IF s.state \notin {0, 1} THEN SendError("State must be 0 or 1", 400)
        ELSE <<>>

do_POST(req) ==
    LET path == req.path
        channels == ParseChannels(req.query).channels
        state == ParseState(req.query).state
    IN  IF path = <<CHANNEL, POWER>> THEN
            IF PostRejection(req.query, "Failed to set power state") # <<>>
            THEN Reply(PostRejection(req.query, "Failed to set power state"))
            ELSE CallHub("power_set", set_channel_power(channels, state), 0)
        ELSE IF path = <<CHANNEL, DATALINE>> THEN
            IF PostRejection(req.query, "Failed to set dataline state") # <<>>
            THEN Reply(PostRejection(req.query, "Failed to set dataline state"))
            ELSE CallHub("dataline_set", set_channel_dataline(channels, state), 0)
        ELSE Reply(SendError("Endpoint not found", 404))

\* BaseHTTPRequestHandler calls do_<METHOD>; the class defines do_GET and
\* do_POST only, and the base class answers 501 for any other method
HandleMethod(req) ==
    IF req.method = "GET" THEN do_GET(req)
    ELSE IF req.method = "POST" THEN do_POST(req)
    ELSE Reply(<<Written(501, {"html"}, 0, "", "Unsupported method")>>)

\* what each request of the model comes to before its driver call
Handled == [req \in Requests |-> HandleMethod(req)]

\* a driver call's outcome: it returned `value` or raised an exception of
\* class `exc`
Returned(value, applied) ==
    [kind |-> "return", value |-> value, exc |-> "", applied |-> applied]

Raised(exc, applied) ==
    [kind |-> "raise", value |-> PyNone, exc |-> exc, applied |-> applied]

\* the rest of a try block after the service call, and its except clauses
AfterInfo(outcome) ==
    LET r == SendResponse({"info"}, 0, outcome.value)
        failed == SendError("Failed to get device info", 500)
    IN  IF outcome.kind = "raise" THEN failed
        ELSE IF r.raised # "" THEN r.sent \o failed
        ELSE r.sent

AfterGet(channel, outcome, message) ==
    LET r == SendResponse({"channel", "status"}, channel, outcome.value)
    IN  IF outcome.kind = "raise" THEN GetExcept(outcome.exc, message)
        ELSE IF r.raised # "" THEN r.sent \o GetExcept(r.raised, message)
        ELSE r.sent

\* a POST branch that answers a rejected write like a raised one
AfterSetRejectionAsError(outcome, message) ==
    LET r == SendResponse({"success"}, 0, outcome.value)
    IN  IF outcome.kind = "raise" THEN PostExcept(outcome.exc, message)
        ELSE IF outcome.value = PyBool(FALSE) THEN SendError(message, 500)
        ELSE IF r.raised # "" THEN r.sent \o PostExcept(r.raised, message)
        ELSE r.sent

AfterSet(outcome, message) ==
    LET r == SendResponse({"success"}, 0, outcome.value)
    IN  IF outcome.kind = "raise" THEN PostExcept(outcome.exc, message)
        ELSE IF r.raised # "" THEN r.sent \o PostExcept(r.raised, message)
        ELSE r.sent

AfterCall(route, channel, outcome) ==
    CASE route = "info" -> AfterInfo(outcome)
      [] route = "power_get" -> AfterGet(channel, outcome, "Failed to get power status")
      [] route = "dataline_get" ->
            AfterGet(channel, outcome, "Failed to get dataline status")
      [] route = "power_set" -> AfterSet(outcome, "Failed to set power state")
      [] route = "dataline_set" -> AfterSet(outcome, "Failed to set dataline state")

(***************************************************************************)
(* The hub driver (smartusbhub.SmartUSBHub), an opaque collaborator: a     *)
(* call returns what the device stores, or fails in one of the ways a      *)
(* Python callee can.                                                      *)
(***************************************************************************)
ExcClasses == {"ValueError", "TypeError", "Exception"}

IsSet(call) == call.op \in {"set_channel_power", "set_channel_dataline"}

IsGet(call) == call.op \in {"get_channel_power_status", "get_channel_dataline_status"}

\* the stored states after the first `applied` channels of a set call
ApplySet(stored, call, applied) ==
    [c \in Channels |->
        IF \E i \in 1..applied : call.args[i] = c THEN call.state ELSE stored[c]]

\* the status of the channels of a get call: the one state for one channel,
\* for any other number the mapping from each of them to its state
StatusOf(stored, args) ==
    IF Len(args) = 1 THEN PyIntVal(stored[args[1]])
    ELSE PyMapping([c \in {args[i] : i \in 1..Len(args)} |-> stored[c]])

DriverOutcomes(call, connected, stored) ==
    IF ~connected THEN {Raised("Exception", 0)}
    ELSE IF IsSet(call) THEN
        {Returned(PyBool(TRUE), Len(call.args)), Returned(PyBytes, Len(call.args))}
        \cup {Returned(PyBool(FALSE), k) : k \in 0..(Len(call.args) - 1)}
        \cup {Raised(e, 0) : e \in ExcClasses}
    ELSE IF IsGet(call) THEN
        {Returned(StatusOf(stored, call.args), 0),
         Returned(PyNone, 0), Returned(PyBytes, 0)}
        \cup {Raised(e, 0) : e \in ExcClasses}
    ELSE {Returned(PyDict, 0), Returned(PyBytes, 0)}
         \cup {Raised(e, 0) : e \in ExcClasses}

(***************************************************************************)
(* State.                                                                  *)
(***************************************************************************)
VARIABLES
    pc,           \* where main() is: start, constructed, serving, exited
    exitCode,     \* the process's exit status once pc = "exited", else -1
    hub,          \* service.hub: unset, none, connected, disconnected
    listener,     \* the HTTPServer socket: unbound, bound, closed
    disconnects,  \* calls of hub.disconnect() so far
    pending,      \* connections made by clients and not yet accepted
    handlers,     \* the request handler instances
    power,        \* the device: power state of each channel
    dataline,     \* the device: dataline state of each channel
    ackPower,     \* per channel, the state of the last set-power answered
                  \* {success: true}; -1 once a later set on it was not
    ackDataline   \* the same for set-dataline

vars == <<pc, exitCode, hub, listener, disconnects, pending, handlers,
          power, dataline, ackPower, ackDataline>>

Handlers == 1..NumHandlers

Idle ==
    [st |-> "idle", req |-> NoRequest, route |-> "none", call |-> NoCall,
     channel |-> 0, sent |-> <<>>, calls |-> 0, raised |-> "", result |-> PyNone,
     changed |-> FALSE, channels |-> <<>>]

HttpPorts == {8089, DefaultHttpPort}

Init ==
    /\ pc = "start"
    /\ exitCode = -1
    /\ hub = "unset"
    /\ listener = "unbound"
    /\ disconnects = 0
    /\ pending = 0
    /\ handlers = [h \in Handlers |-> Idle]
    \* the hub as it is when plugged in: every channel powered and connected
    /\ power = [c \in Channels |-> 1]
    /\ dataline = [c \in Channels |-> 1]
    /\ ackPower = [c \in Channels |-> -1]
    /\ ackDataline = [c \in Channels |-> -1]

(***************************************************************************)
(* main() and SmartUSBHubService.                                          *)
(***************************************************************************)
\* what SmartUSBHub(port) or SmartUSBHub.scan_and_connect() can give
ConnectResults(portGiven) ==
    IF portGiven THEN {"hub", "raise"} ELSE {"hub", "none", "raise"}

\* __init__ without the test of self.hub
InitFailsOnRaiseOnly(result) == result = "raise"

\* __init__ does not return a service: the connect raised, or self.hub is None
\* and RuntimeError is raised
InitFails(result) == result = "raise" \/ result = "none"

\* HTTPServer((host, http_port), ...) binds in its constructor
BindSucceeds(port, inUse) == port <= 65535 /\ ~inUse

\* service = SmartUSBHubService(port=args.port, ...)
Construct ==
    /\ pc = "start"
    /\ \E portGiven \in BOOLEAN :
          \E result \in ConnectResults(portGiven) :
             /\ hub' = (IF result = "hub" THEN "connected" ELSE "none")
             /\ IF InitFails(result)
                THEN pc' = "exited" /\ exitCode' = 1
                ELSE pc' = "constructed" /\ exitCode' = exitCode
    /\ UNCHANGED <<listener, disconnects, pending, handlers, power, dataline,
                   ackPower, ackDataline>>

\* service.start(); an exception leaves main() through `except Exception`
StartService ==
    /\ pc = "constructed"
    /\ \E port \in HttpPorts, inUse \in BOOLEAN :
          IF BindSucceeds(port, inUse)
          THEN /\ listener' = "bound"
               /\ pc' = "serving"
               /\ exitCode' = exitCode
          ELSE /\ listener' = listener
               /\ pc' = "exited"
               /\ exitCode' = 1
    /\ UNCHANGED <<hub, disconnects, pending, handlers, power, dataline,
                   ackPower, ackDataline>>

\* Ctrl+C in the wait loop: service.stop() and the end of main().
\* server.shutdown() returns when serve_forever has left its loop, which it
\* does between two requests
Interrupt ==
    /\ pc = "serving"
    /\ \A h \in Handlers : handlers[h].st = "idle"
    /\ listener' = "closed"
    /\ hub' = "disconnected"
    /\ disconnects' = disconnects + 1
    /\ pc' = "exited"
    /\ exitCode' = 0
    /\ UNCHANGED <<pending, handlers, power, dataline, ackPower, ackDataline>>

(***************************************************************************)
(* The server thread and its handlers.                                     *)
(***************************************************************************)
\* a client connects; the connection waits in the listen queue
ClientConnect ==
    /\ listener = "bound"
    /\ pending < MaxPending
    /\ pending' = pending + 1
    /\ UNCHANGED <<pc, exitCode, hub, listener, disconnects, handlers,
                   power, dataline, ackPower, ackDataline>>

\* a ThreadingHTTPServer: a connection is accepted whatever the handlers do
ThreadPerRequest == TRUE

\* HTTPServer handles a request in the thread of serve_forever: the next
\* connection is accepted when the handler of the last one has returned
ServerThreadFree == \A h \in Handlers : handlers[h].st = "idle"

FreeHandler == CHOOSE h \in Handlers :
    /\ handlers[h].st = "idle"
    /\ \A g \in Handlers : handlers[g].st = "idle" => h <= g

\* serve_forever accepts a connection and runs the handler up to its
\* driver call, or to its end when it makes none
Accept ==
    /\ pc = "serving"
    /\ pending > 0
    /\ ServerThreadFree
    /\ \E h \in Handlers : handlers[h].st = "idle"
    /\ pending' = pending - 1
    /\ \E req \in Requests :
          LET step == Handled[req]
          IN  handlers' = [handlers EXCEPT ![FreeHandler] =
                  [st |-> IF step.t = "call" THEN "driver" ELSE "done",
                   req |-> req, route |-> step.route, call |-> step.call,
                   channel |-> step.channel, sent |-> step.sent,
                   calls |-> IF step.t = "call" THEN 1 ELSE 0,
                   raised |-> "", result |-> PyNone, changed |-> FALSE]]
    /\ UNCHANGED <<pc, exitCode, hub, listener, disconnects, power, dataline,
                   ackPower, ackDataline>>

\* the acknowledged states after the POST `req` was answered with `sent`
Acked(ack, req, sent) ==
    LET channels == ParseChannels(req.query).channels
        state == ParseState(req.query).state
    IN  [c \in Channels |->
            IF \E i \in 1..Len(channels) : channels[i] = c
            THEN IF Len(sent) = 1 /\ sent[1].code = 200 /\ sent[1].value = "true"
                 THEN state ELSE -1
            ELSE ack[c]]

\* the driver call of handler h returns or raises, and the handler runs to
\* its end
DriverReturn(h) ==
    /\ handlers[h].st = "driver"
    /\ LET call == handlers[h].call
           stored == IF call.op \in {"set_channel_dataline", "get_channel_dataline_status"}
                     THEN dataline ELSE power
       IN  \E outcome \in DriverOutcomes(call, hub = "connected", stored) :
              LET sent == AfterCall(handlers[h].route, handlers[h].channel, outcome)
                  after == ApplySet(stored, call, outcome.applied)
              IN  /\ handlers' = [handlers EXCEPT ![h].st = "done", ![h].sent = sent,
                                                  ![h].raised = outcome.exc,
                                                  ![h].result = outcome.value,
                                                  ![h].changed = (after # stored)]
                  /\ power' = IF call.op = "set_channel_power" THEN after ELSE power
                  /\ dataline' = IF call.op = "set_channel_dataline" THEN after
                                 ELSE dataline
                  /\ ackPower' = IF handlers[h].route = "power_set"
                                 THEN Acked(ackPower, handlers[h].req, sent)
                                 ELSE ackPower
                  /\ ackDataline' = IF handlers[h].route = "dataline_set"
                                    THEN Acked(ackDataline, handlers[h].req, sent)
                                    ELSE ackDataline
    /\ UNCHANGED <<pc, exitCode, hub, listener, disconnects, pending>>

\* the driver call of handler h never returns (the device hangs): the
\* handler, and with it the thread of serve_forever, stays in the call
DriverHang(h) ==
    /\ handlers[h].st = "driver"
    /\ handlers' = [handlers EXCEPT ![h].st = "hung"]
    /\ UNCHANGED <<pc, exitCode, hub, listener, disconnects, pending,
                   power, dataline, ackPower, ackDataline>>

\* the handler returns and the connection is closed
Finish(h) ==
    /\ handlers[h].st = "done"
    /\ handlers' = [handlers EXCEPT ![h] = Idle]
    /\ UNCHANGED <<pc, exitCode, hub, listener, disconnects, pending,
                   power, dataline, ackPower, ackDataline>>

Next ==
    \/ Construct
    \/ StartService
    \/ Interrupt
    \/ ClientConnect
    \/ Accept
    \/ \E h \in Handlers : DriverReturn(h)
    \/ \E h \in Handlers : DriverHang(h)
    \/ \E h \in Handlers : Finish(h)

Spec == Init /\ [][Next]_vars

(***************************************************************************)
(* The status getters of SmartUSBHubService called directly, with any list *)
(* of channels, on a connected hub: one caller, one call at a time.        *)
(***************************************************************************)
ChannelLists == {cs \in SeqsUpTo(Channels, MaxChannels) : Len(cs) >= 1}

InitGetters ==
    /\ pc = "serving"
    /\ exitCode = -1
    /\ hub = "connected"
    /\ listener = "bound"
    /\ disconnects = 0
    /\ pending = 0
    /\ handlers = [h \in Handlers |-> Idle]
    /\ power \in [Channels -> {0, 1}]
    /\ dataline \in [Channels -> {0, 1}]
    /\ ackPower = [c \in Channels |-> -1]
    /\ ackDataline = [c \in Channels |-> -1]

\* service.get_channel_power_status(channels) or
\* service.get_channel_dataline_status(channels) is entered and reaches its
\* call of the hub
GetterCall(h) ==
    /\ \A g \in Handlers : handlers[g].st = "idle"
    /\ \E channels \in ChannelLists, route \in {"power_get", "dataline_get"} :
          handlers' = [handlers EXCEPT ![h] =
              [Idle EXCEPT !.st = "driver", !.route = route, !.channels = channels,
                           !.calls = 1,
                           !.call = IF route = "power_get"
                                    THEN get_channel_power_status(channels)
                                    ELSE get_channel_dataline_status(channels)]]
    /\ UNCHANGED <<pc, exitCode, hub, listener, disconnects, pending,
                   power, dataline, ackPower, ackDataline>>

\* the hub's answer is the getter's: it returns what the hub returned and
\* raises what the hub raised
GetterReturn(h) ==
    /\ handlers[h].st = "driver"
    /\ LET call == handlers[h].call
           stored == IF call.op = "get_channel_dataline_status" THEN dataline ELSE power
       IN  \E outcome \in DriverOutcomes(call, hub = "connected", stored) :
              handlers' = [handlers EXCEPT ![h].st = "done",
                                           ![h].raised = outcome.exc,
                                           ![h].result = outcome.value]
    /\ UNCHANGED <<pc, exitCode, hub, listener, disconnects, pending,
                   power, dataline, ackPower, ackDataline>>

\* the caller has its answer and may call again
GetterDone(h) ==
    /\ handlers[h].st = "done"
    /\ handlers' = [handlers EXCEPT ![h] = Idle]
    /\ UNCHANGED <<pc, exitCode, hub, listener, disconnects, pending,
                   power, dataline, ackPower, ackDataline>>

NextGetters ==
    \/ \E h \in Handlers : GetterCall(h)
    \/ \E h \in Handlers : GetterReturn(h)
    \/ \E h \in Handlers : GetterDone(h)

SpecGetters == InitGetters /\ [][NextGetters]_vars

(***************************************************************************)
(* Properties.                                                             *)
(***************************************************************************)
Done(h) == handlers[h].st = "done"

\* the status line a client reads: the first one written
Status(h) == handlers[h].sent[1].code

IsChannelGet(req) ==
    /\ req.method = "GET"
    /\ Len(req.path) = 3
    /\ req.path[1] = CHANNEL
    /\ req.path[2] \in {POWER, DATALINE}

IsChannelPost(req) ==
    req.method = "POST" /\ req.path \in {<<CHANNEL, POWER>>, <<CHANNEL, DATALINE>>}

\* an integer literal: digits, with an optional sign before them
IsIntegerLiteral(text) ==
    LET body == IF text # <<>> /\ Head(text) \in {"+", "-"} THEN Tail(text) ELSE text
    IN  body # <<>> /\ \A i \in 1..Len(body) : body[i] \in Digits

\* C1: at most one request is inside a device round-trip (driver call
\* started and not yet returned) at any moment, whatever the requests are
C1_OneRoundTripAtATime ==
    Cardinality({h \in Handlers : handlers[h].st \in {"driver", "hung"}}) <= 1

\* a request is inside its driver call while another one is in flight
C1_Witness ==
    /\ pending > 0
    /\ \E h \in Handlers : handlers[h].st = "driver"

\* C2: GET /channel/power/{n} and GET /channel/dataline/{n} answer 400 if and
\* only if n is not an integer literal or is outside 1..4; an n in 1..4 is
\* answered 200 or 500
C2_Original ==
    \A h \in Handlers :
        Done(h) /\ IsChannelGet(handlers[h].req) =>
            LET n == handlers[h].req.path[3]
                bad == ~IsIntegerLiteral(n) \/ PyInt(n).val \notin Channels
            IN  /\ (Status(h) = 400) <=> bad
                /\ ~bad => Status(h) \in {200, 500}

\* the `state` parameter is absent, or is no integer, or is neither 0 nor 1
StateIsBad(query) ==
    \/ QueryValues(query, "state") = <<>>
    \/ ~PyInt(QueryValues(query, "state")[1]).ok
    \/ PyInt(QueryValues(query, "state")[1]).val \notin {0, 1}

\* C3: a POST to /channel/power or /channel/dataline whose `state` is bad is
\* answered 400 and makes no driver call, whatever `channels` is
C3_Original ==
    \A h \in Handlers :
        Done(h) /\ IsChannelPost(handlers[h].req) /\ StateIsBad(handlers[h].req.query) =>
            Status(h) = 400 /\ handlers[h].calls = 0

\* the `channels` parameter is absent or empty, or one of its elements is no
\* integer or is outside 1..4
ChannelsAreBad(query) ==
    \/ QueryValues(query, "channels") = <<>>
    \/ \E i \in 1..Len(Split(QueryValues(query, "channels")[1])) :
          LET e == PyInt(Split(QueryValues(query, "channels")[1])[i])
          IN  ~e.ok \/ e.val \notin Channels

\* C4: a POST to /channel/power or /channel/dataline whose `channels` is bad
\* is answered 400 and applies the state to no channel
C4_Original ==
    \A h \in Handlers :
        Done(h) /\ IsChannelPost(handlers[h].req) /\ ChannelsAreBad(handlers[h].req.query) =>
            Status(h) = 400 /\ handlers[h].calls = 0 /\ ~handlers[h].changed

\* the five routes of the routing table
IsRoute(req) ==
    \/ req.method = "GET" /\ req.path = <<DEVICE, INFO>>
    \/ IsChannelGet(req)
    \/ IsChannelPost(req)

\* C5: a request on no route of the routing table is answered 404
\* {error: "Endpoint not found"}
C5_Original ==
    \A h \in Handlers :
        Done(h) /\ ~IsRoute(handlers[h].req) =>
            handlers[h].sent = SendError("Endpoint not found", 404)

\* C6: a request whose driver call raises is answered 500 with a body holding
\* the single field `error`, and the server keeps serving
C6_Original ==
    \A h \in Handlers :
        Done(h) /\ handlers[h].raised # "" =>
            /\ Len(handlers[h].sent) = 1
            /\ Status(h) = 500
            /\ handlers[h].sent[1].fields = {"error"}
            /\ pc = "serving" /\ listener = "bound"

\* the channel a GET on a channel route names
GetChannel(req) == PyInt(Last(req.path)).val

\* C7: once a POST setting channel c to s was answered {success: true}, and
\* with no other set on c since, a GET on c that returns a status returns s;
\* for power and for dataline
C7_RoundTrip ==
    \A h \in Handlers :
        /\ Done(h)
        /\ handlers[h].route \in {"power_get", "dataline_get"}
        /\ handlers[h].sent[1].code = 200
        /\ handlers[h].sent[1].value \in {"0", "1"}
        => LET c == GetChannel(handlers[h].req)
               ack == IF handlers[h].route = "power_get" THEN ackPower ELSE ackDataline
           IN  ack[c] # -1 =>
                  /\ handlers[h].sent[1].channel = c
                  /\ handlers[h].sent[1].value = (IF ack[c] = 0 THEN "0" ELSE "1")

\* a GET returns the 0 that an acknowledged POST has set on a channel that
\* was 1 at the start
C7_Witness ==
    \E h \in Handlers :
        /\ Done(h)
        /\ handlers[h].route = "power_get"
        /\ ackPower[GetChannel(handlers[h].req)] = 0
        /\ handlers[h].sent = <<Written(200, {"channel", "status"},
                                        GetChannel(handlers[h].req), "0", "")>>

\* C8: a process that exits after the device session was established has
\* called disconnect exactly once
C8_Original ==
    pc = "exited" /\ hub \in {"connected", "disconnected"} => disconnects = 1

\* C9: the listener is bound only once the device session is established;
\* when the connection fails the process exits with the listener never bound
\* and no request served
C9_ListenerAfterSession ==
    /\ listener # "unbound" => hub \in {"connected", "disconnected"}
    /\ hub = "none" =>
          /\ pc = "exited" /\ exitCode = 1
          /\ listener = "unbound"
          /\ pending = 0
          /\ \A h \in Handlers : handlers[h].st = "idle"

\* the scan found no device and the process has exited
C9_Witness == pc = "exited" /\ hub = "none" /\ listener = "unbound"

\* C10: a request answered 400 or 404 has made no driver call and has left
\* the device's power and dataline states as they were
C10_Original ==
    \A h \in Handlers :
        Done(h) /\ Status(h) \in {400, 404} =>
            handlers[h].calls = 0 /\ ~handlers[h].changed

\* C11: a 200 answer to GET /channel/power/{n} or /channel/dataline/{n}
\* carries {channel: n, status} with status 0 or 1; a driver call that
\* yields no status is answered with an error, not with 200
C11_Original ==
    \A h \in Handlers :
        Done(h) /\ IsChannelGet(handlers[h].req) /\ Len(handlers[h].sent) = 1
        /\ Status(h) = 200
        => /\ handlers[h].sent[1].fields = {"channel", "status"}
           /\ handlers[h].sent[1].value \in {"0", "1"}

\* the request is on a route of the routing table and its parameters pass
\* the validation rules
Validated(req) ==
    \/ req.method = "GET" /\ req.path = <<DEVICE, INFO>>
    \/ /\ IsChannelGet(req)
       /\ IsIntegerLiteral(req.path[3])
       /\ PyInt(req.path[3]).val \in Channels
    \/ /\ IsChannelPost(req)
       /\ ~ChannelsAreBad(req.query)
       /\ ~StateIsBad(req.query)

\* C13: a request that passes validation makes exactly one driver call, and
\* when that call raises the request is answered 500 after that one attempt,
\* with no reconnection
C13_Original ==
    \A h \in Handlers :
        Done(h) /\ Validated(handlers[h].req) =>
            /\ handlers[h].calls = 1
            /\ hub = "connected"
            /\ handlers[h].raised # "" =>
                  Len(handlers[h].sent) = 1 /\ Status(h) = 500

\* the channels and the state a validated POST names
PostChannels(req) ==
    LET tokens == Split(QueryValues(req.query, "channels")[1])
    IN  {PyInt(tokens[i]).val : i \in 1..Len(tokens)}

PostState(req) == PyInt(QueryValues(req.query, "state")[1]).val

\* C14: a validated POST whose driver call returns is answered 200
\* {success: b}: b is true when the device acknowledged every listed channel
\* (each then holds the state), false when it rejected a write; a rejection
\* is not a 500, and 500 is written only when the driver call raised
C14_SuccessFlag ==
    \A h \in Handlers :
        Done(h) /\ IsChannelPost(handlers[h].req) /\ Validated(handlers[h].req) =>
            LET r == handlers[h]
                stored == IF r.req.path = <<CHANNEL, POWER>> THEN power ELSE dataline
            IN  /\ r.result = PyBool(TRUE) =>
                      /\ r.sent = <<Written(200, {"success"}, 0, "true", "")>>
                      /\ \A c \in PostChannels(r.req) : stored[c] = PostState(r.req)
                /\ r.result = PyBool(FALSE) =>
                      r.sent = <<Written(200, {"success"}, 0, "false", "")>>
                /\ (\E i \in 1..Len(r.sent) : r.sent[i].code = 500) => r.raised # ""
                /\ r.raised = "" => Status(h) = 200

\* a write the device rejected is answered 200 {success: false}
C14_Witness ==
    \E h \in Handlers :
        /\ Done(h)
        /\ handlers[h].route = "power_set"
        /\ handlers[h].result = PyBool(FALSE)
        /\ handlers[h].sent = <<Written(200, {"success"}, 0, "false", "")>>

\* C15: once the driver call of a request never returns, no handler starts,
\* answers or ends any more, the connections made since stay unanswered in
\* the queue, and main() stays where it is: nothing times the call out
C15_HungBlocksService ==
    [][(\E h \in Handlers : handlers[h].st = "hung") =>
          /\ handlers' = handlers
          /\ pending' >= pending
          /\ pc' = pc /\ listener' = listener /\ hub' = hub]_vars

\* a request has arrived after the driver call of another one hung
C15_Witness ==
    /\ pending > 0
    /\ \E h \in Handlers : handlers[h].st = "hung"

\* C17: a handled GET or POST writes exactly one response; no success status
\* line is followed by an error status line
C17_Original ==
    \A h \in Handlers :
        Done(h) /\ handlers[h].req.method \in {"GET", "POST"} =>
            /\ Len(handlers[h].sent) = 1
            /\ ~\E i, j \in 1..Len(handlers[h].sent) :
                  i < j /\ handlers[h].sent[i].code = 200 /\ handlers[h].sent[j].code >= 400

\* the driver call a handler has made is the one its request names: a GET
\* makes no set call, a validated POST /channel/power makes set-power for
\* exactly its channels and its state, a validated POST /channel/dataline
\* set-dataline likewise, any other POST none
C16_Calls ==
    \A h \in Handlers :
        LET r == handlers[h]
            named(op) ==
                /\ r.call.op = op
                /\ {r.call.args[i] : i \in 1..Len(r.call.args)} = PostChannels(r.req)
                /\ r.call.state = PostState(r.req)
        IN  r.st # "idle" =>
              /\ r.req.method = "GET" =>
                    /\ r.call.op \in {"none", "get_device_info",
                                      "get_channel_power_status",
                                      "get_channel_dataline_status"}
                    /\ ~r.changed
              /\ r.req.method = "POST" =>
                    IF ~Validated(r.req) THEN r.call.op = "none"
                    ELSE IF r.req.path = <<CHANNEL, POWER>> THEN named("set_channel_power")
                    ELSE named("set_channel_dataline")

\* a step changes the stored state of a channel only when it ends the
\* driver call of a POST on that kind of state which lists the channel, and
\* then to the state the POST names
C16_DeviceStep ==
    LET sets(h, path, c, new) ==
            /\ handlers[h].st = "driver" /\ handlers'[h].st = "done"
            /\ handlers[h].req.method = "POST" /\ handlers[h].req.path = path
            /\ Validated(handlers[h].req)
            /\ c \in PostChannels(handlers[h].req)
            /\ new = PostState(handlers[h].req)
    IN  \A c \in Channels :
          /\ power'[c] # power[c] =>
                \E h \in Handlers : sets(h, <<CHANNEL, POWER>>, c, power'[c])
          /\ dataline'[c] # dataline[c] =>
                \E h \in Handlers : sets(h, <<CHANNEL, DATALINE>>, c, dataline'[c])

\* C16: a request changes only what it names: no set call on a GET, the one
\* set call of its own kind, channels and state on a validated POST, and the
\* power and dataline states of the channels it does not list left as they
\* were
C16_Frame == []C16_Calls /\ [][C16_DeviceStep]_vars

\* a POST /channel/power has switched channels 1 and 4 off and the dataline
\* states are as they were at the start
C16_Witness ==
    \E h \in Handlers :
        /\ Done(h)
        /\ handlers[h].route = "power_set"
        /\ PostChannels(handlers[h].req) = {1, 4}
        /\ handlers[h].changed
        /\ power = [c \in Channels |-> IF c \in {1, 4} THEN 0 ELSE 1]
        /\ dataline = [c \in Channels |-> 1]

====
